---------------------------- MODULE Spec2Model ----------------------------
(***************************************************************************)
(* Model of the furniture CRUD service of src/main.py: the four handlers   *)
(* of /api/furniture over one document collection.                         *)
(*                                                                         *)
(* Representation.                                                         *)
(*   - A JSON / Python value that may be None is a set: {} is None and     *)
(*     {v} is the value v.  Every field of a payload and of a stored       *)
(*     document is such a set, so that None compares with anything.        *)
(*   - A str that the code inspects character by character (name,          *)
(*     description, q) is a sequence of one-character strings; the other   *)
(*     strings are only compared and are TLA+ strings.                     *)
(*   - An ObjectId is the record [oid |-> n]; its str() form, which is     *)
(*     what a client holds and sends back as item_id, is <<"oid", n>>.     *)
(*   - The collection is the sequence of its documents in natural          *)
(*     (insertion) order, which is the order an unsorted find returns.     *)
(*                                                                         *)
(* Scope.  The store is taken to be reachable and to work: the 500 that a  *)
(* failing store call is turned into, and the 422 the framework gives a    *)
(* body that fails validation, are not modelled.  The helpers of the       *)
(* database module (create_document, get_documents) are modelled from the  *)
(* store contract of the specification.                                    *)
(***************************************************************************)
EXTENDS Integers, Sequences, FiniteSets, TLC

VARIABLES
    store,    \* db["furniture"]: the sequence of stored documents
    nextId,   \* the counter the store draws fresh ObjectIds from
    now,      \* the wall clock read by datetime.now()
    req,      \* the request served last
    resp,     \* the HTTP response to it
    prev,     \* the collection as it was when that request arrived
    docs,     \* list_furniture's local docs, as returned by get_documents
    procs,    \* concurrent requests: per worker, its request and position
    calls     \* the workers in the order of their store calls

vars == <<store, nextId, now, req, resp, prev, docs, procs, calls>>

---------------------------------------------------------------------------
(* Bounds of the model. *)

MaxId == 2      \* documents ever created
MaxClock == 1   \* readings of the clock
NumWorkers == 2 \* concurrent requests on one id

---------------------------------------------------------------------------
(* Optional values and strings. *)

None == {}
Some(v) == {v}
Val(o) == CHOOSE v \in o : TRUE

Min(a, b) == IF a <= b THEN a ELSE b

UpperCase == <<"A","B","C","D","E","F","G","H","I","J","K","L","M",
               "N","O","P","Q","R","S","T","U","V","W","X","Y","Z">>
LowerCase == <<"a","b","c","d","e","f","g","h","i","j","k","l","m",
               "n","o","p","q","r","s","t","u","v","w","x","y","z">>

\* str.lower() on one character
LowerChar(c) ==
    IF \E i \in 1..Len(UpperCase) : UpperCase[i] = c
    THEN LowerCase[CHOOSE i \in 1..Len(UpperCase) : UpperCase[i] = c]
    ELSE c

\* str.lower()
lower(s) == [i \in 1..Len(s) |-> LowerChar(s[i])]

\* Python's  needle in hay  on two strs
Contains(hay, needle) ==
    \E i \in 0..(Len(hay) - Len(needle)) :
        SubSeq(hay, i + 1, i + Len(needle)) = needle

---------------------------------------------------------------------------
(* ObjectIds. *)

ObjectIdOf(n) == [oid |-> n]

\* str(ObjectId)
ObjectIdStr(o) == <<"oid", o.oid>>

\* bson.ObjectId.is_valid: whether ObjectId(item_id) succeeds
ObjectIdValid(item_id) == Len(item_id) = 2 /\ item_id[1] = "oid"

\* ObjectId(item_id), for a valid item_id
ObjectIdParse(item_id) == [oid |-> item_id[2]]

\* isinstance(x, ObjectId)
IsObjectId(x) == DOMAIN x = {"oid"}

---------------------------------------------------------------------------
(* The request schemas. *)

Fields == {"name", "description", "category", "material", "dimensions",
           "price", "stock", "image_url", "is_featured"}

Required == {"name", "category", "price"}

\* Mutant: stock and is_featured declared Optional, default None.
FurnitureCreateDefaultNone(f) == None

\* The defaults of FurnitureCreate's fields that have one.
FurnitureCreateDefault(f) ==
    CASE f = "stock" -> Some(0)
      [] f = "is_featured" -> Some(FALSE)
      [] OTHER -> None

\* FurnitureCreate(**body).model_dump(): a JSON body (a function from some
\* fields to optional values) that has the required fields becomes a value
\* for every field.
FurnitureCreate(body) ==
    [f \in Fields |-> IF f \in DOMAIN body THEN body[f]
                      ELSE FurnitureCreateDefault(f)]

\* FurnitureUpdate(**body).model_dump(): every field optional, default None.
FurnitureUpdate(body) ==
    [f \in Fields |-> IF f \in DOMAIN body THEN body[f] ELSE None]


---------------------------------------------------------------------------
(* The document store: the helpers of the database module and the driver   *)
(* calls the handlers make on db["furniture"].                             *)

Take(s, n) == SubSeq(s, 1, Min(n, Len(s)))

\* The position of the first document of coll whose _id is oid, 0 if none.
IndexOf(coll, oid) ==
    IF \E i \in 1..Len(coll) : coll[i]["_id"] = oid
    THEN CHOOSE i \in 1..Len(coll) :
            /\ coll[i]["_id"] = oid
            /\ \A j \in 1..(i - 1) : coll[j]["_id"] # oid
    ELSE 0

\* An exact-match filter document against one document.
Matches(d, filter_dict) ==
    \A k \in DOMAIN filter_dict : k \in DOMAIN d /\ d[k] = filter_dict[k]

\* create_document("furniture", item): insert-one of the validated input
\* under a store-generated identifier, which is returned as a string.
create_document(coll, item, n) ==
    LET doc == [k \in Fields \cup {"_id"} |->
                   IF k = "_id" THEN ObjectIdOf(n) ELSE item[k]]
    IN  [coll |-> Append(coll, doc), inserted_id |-> ObjectIdStr(ObjectIdOf(n))]

\* get_documents("furniture", filter_dict, limit): find-many, up to limit
\* matching documents in the store's order.
get_documents(coll, filter_dict, limit) ==
    Take(SelectSeq(coll, LAMBDA d : Matches(d, filter_dict)), limit)

\* The driver's $set of the fields of set_doc on one document.
ApplySet(d, set_doc) ==
    [k \in DOMAIN d \cup DOMAIN set_doc |->
        IF k \in DOMAIN set_doc THEN set_doc[k] ELSE d[k]]

\* Mutant: update_one(..., upsert=True), which inserts when nothing matches.
update_one_upsert(coll, oid, set_doc) ==
    LET i == IndexOf(coll, oid)
    IN  IF i = 0
        THEN [coll |-> Append(coll, ApplySet([k \in {"_id"} |-> oid], set_doc)),
              matched_count |-> 0]
        ELSE [coll |-> [coll EXCEPT ![i] = ApplySet(coll[i], set_doc)],
              matched_count |-> 1]

\* db["furniture"].update_one({"_id": oid}, {"$set": set_doc}), no upsert.
update_one(coll, oid, set_doc) ==
    LET i == IndexOf(coll, oid)
    IN  IF i = 0
        THEN [coll |-> coll, matched_count |-> 0]
        ELSE [coll |-> [coll EXCEPT ![i] = ApplySet(coll[i], set_doc)],
              matched_count |-> 1]

\* db["furniture"].delete_one({"_id": oid})
delete_one(coll, oid) ==
    LET i == IndexOf(coll, oid)
    IN  IF i = 0
        THEN [coll |-> coll, deleted_count |-> 0]
        ELSE [coll |-> SubSeq(coll, 1, i - 1) \o SubSeq(coll, i + 1, Len(coll)),
              deleted_count |-> 1]

---------------------------------------------------------------------------
(* Responses and exceptions. *)

Ok(body) == [status |-> 200, body |-> body]

\* fastapi.HTTPException(status_code, detail)
HTTPException(status_code, detail) ==
    [type |-> "HTTPException", status_code |-> status_code, detail |-> detail]

\* bson.errors.InvalidId, raised by ObjectId(item_id)
InvalidId == [type |-> "InvalidId", detail |-> <<"not a valid ObjectId">>]

ItemNotFound == <<"Item not found">>

\* str(e): an HTTPException prints as "<status_code>: <detail>".  Texts are
\* sequences of pieces, so that this concatenation can be formed.
StrOfException(e) ==
    IF e.type = "HTTPException"
    THEN <<ToString(e.status_code), ": ">> \o e.detail
    ELSE e.detail

\* The response the framework makes of an HTTPException that leaves a handler.
Raised(e) == [status |-> e.status_code, detail |-> e.detail]

\* except Exception as e: raise HTTPException(status_code=500, detail=str(e)).
\* HTTPException is an Exception, so the handlers' own 404 is caught here too.
ExceptException(e) == Raised(HTTPException(500, StrOfException(e)))

---------------------------------------------------------------------------
(* list_furniture *)

DefaultLimit == 50

\* Mutant: featured tested for truth, as category is, so that
\* featured=false adds no condition.
list_filter_truthy(category, featured) ==
    [k \in (IF category # None /\ Val(category) # "" THEN {"category"} ELSE {})
           \cup (IF featured # None /\ Val(featured) THEN {"is_featured"} ELSE {})
       |-> IF k = "category" THEN category ELSE featured]

\* if category: ...; if featured is not None: ...
\* An empty category string is falsy and adds no condition.
list_filter(category, featured) ==
    [k \in (IF category # None /\ Val(category) # "" THEN {"category"} ELSE {})
           \cup (IF featured # None THEN {"is_featured"} ELSE {})
       |-> IF k = "category" THEN category ELSE featured]

\* Mutant: the limit not handed to the store query.
list_query_unlimited(coll, filter_dict, limit) ==
    get_documents(coll, filter_dict, Len(coll))

\* docs = get_documents("furniture", filter_dict, limit)
list_query(coll, filter_dict, limit) == get_documents(coll, filter_dict, limit)

\* Mutant: q compared as given.
QLowerAsGiven(q) == q

\* q_lower = q.lower()
QLower(q) == lower(q)

\* d.get("name", "").lower() + " " + (d.get("description", "") or "").lower()
SearchText(d) ==
    lower(IF "name" \in DOMAIN d /\ d["name"] # None THEN Val(d["name"]) ELSE <<>>)
    \o <<" ">>
    \o lower(IF "description" \in DOMAIN d /\ d["description"] # None
             THEN Val(d["description"]) ELSE <<>>)

\* if q: docs = [d for d in docs if q_lower in ...]
list_search(ds, q) ==
    IF q # None /\ Val(q) # <<>>
    THEN SelectSeq(ds, LAMBDA d : Contains(SearchText(d), QLower(Val(q))))
    ELSE ds

\* Mutant: the documents returned as the store holds them.
ConvertObjectIdSkipped(d) == d

\* if isinstance(d.get("_id"), ObjectId): d["id"] = str(d.pop("_id"))
ConvertObjectId(d) ==
    IF "_id" \in DOMAIN d /\ IsObjectId(d["_id"])
    THEN [k \in (DOMAIN d \ {"_id"}) \cup {"id"} |->
             IF k = "id" THEN ObjectIdStr(d["_id"]) ELSE d[k]]
    ELSE d

\* The handler: the documents fetched and the response.
list_furniture(coll, q, category, featured, limit) ==
    LET fetched == list_query(coll, list_filter(category, featured), limit)
        found == list_search(fetched, q)
    IN  [docs |-> fetched,
         resp |-> Ok([i \in 1..Len(found) |-> ConvertObjectId(found[i])])]

---------------------------------------------------------------------------
(* create_furniture *)

create_furniture(coll, body, n) ==
    LET r == create_document(coll, FurnitureCreate(body), n)
    IN  [coll |-> r.coll, resp |-> Ok([id |-> r.inserted_id])]

---------------------------------------------------------------------------
(* update_furniture *)

\* Mutant: the whole dump applied, nulls included.
ChangeSetKeepsNulls(payload) == payload

\* update_doc = {k: v for k, v in payload.model_dump().items() if v is not None}
ChangeSet(payload) ==
    [k \in {f \in DOMAIN payload : payload[f] # None} |-> payload[k]]

\* Mutant: no short-circuit on an empty change-set.
IsEmptyChangeSetNever(update_doc) == FALSE

\* if not update_doc
IsEmptyChangeSet(update_doc) == DOMAIN update_doc = {}

\* update_doc["updated_at"] = datetime.now(timezone.utc)
Stamp(update_doc, t) ==
    [k \in DOMAIN update_doc \cup {"updated_at"} |->
        IF k = "updated_at" THEN Some(t) ELSE update_doc[k]]

\* The store call of the handler and all that follows it.
update_call(coll, item_id, update_doc) ==
    IF ~ObjectIdValid(item_id)
    THEN [coll |-> coll, resp |-> ExceptException(InvalidId)]
    ELSE LET result == update_one(coll, ObjectIdParse(item_id), update_doc)
         IN  [coll |-> result.coll,
              resp |-> IF result.matched_count = 0
                       THEN ExceptException(HTTPException(404, ItemNotFound))
                       ELSE Ok([updated |-> TRUE])]

\* The handler; reads_clock tells whether datetime.now() was reached.
update_furniture(coll, item_id, body, t) ==
    LET update_doc == ChangeSet(FurnitureUpdate(body))
    IN  IF IsEmptyChangeSet(update_doc)
        THEN [coll |-> coll, resp |-> Ok([updated |-> FALSE]), reads_clock |-> FALSE]
        ELSE LET r == update_call(coll, item_id, Stamp(update_doc, t))
             IN  [coll |-> r.coll, resp |-> r.resp, reads_clock |-> TRUE]

---------------------------------------------------------------------------
(* delete_furniture *)

delete_furniture(coll, item_id) ==
    IF ~ObjectIdValid(item_id)
    THEN [coll |-> coll, resp |-> ExceptException(InvalidId)]
    ELSE LET result == delete_one(coll, ObjectIdParse(item_id))
         IN  [coll |-> result.coll,
              resp |-> IF result.deleted_count = 0
                       THEN ExceptException(HTTPException(404, ItemNotFound))
                       ELSE Ok([deleted |-> TRUE])]

---------------------------------------------------------------------------
(* The requests the model sends. *)

Oak == <<"O", "a", "k">>
Table == <<"T", "a", "b", "l", "e">>
Stool == <<"S", "t", "o", "o", "l">>

\* POST bodies: the required fields alone; every field; an empty category
\* with an explicit null.
CreateBodies ==
    { [name |-> Some(Oak), category |-> Some("chairs"), price |-> Some(10)],
      [name |-> Some(Oak), description |-> Some(Table), category |-> Some("tables"),
       material |-> Some("oak"), dimensions |-> Some("1x1"), price |-> Some(20),
       stock |-> Some(3), image_url |-> Some("/t.png"), is_featured |-> Some(TRUE)],
      [name |-> Some(Stool), description |-> None, category |-> Some(""),
       price |-> Some(5), is_featured |-> Some(TRUE)] }

\* PATCH bodies: nothing; only nulls; one field; falsy values with a null;
\* the searched fields.
EmptyBody == [f \in {} |-> None]

UpdateBodies ==
    { EmptyBody,
      [price |-> None, name |-> None],
      [price |-> Some(199)],
      [stock |-> Some(0), is_featured |-> Some(FALSE), material |-> None],
      [name |-> Some(Table), description |-> Some(Oak), category |-> Some("chairs")] }

BadItemId == <<"not-an-object-id">>

ItemIds == {ObjectIdStr(ObjectIdOf(n)) : n \in 1..MaxId} \cup {BadItemId}

\* GET query strings: q, category, featured and limit, each absent or given.
ListRequest(q, category, featured, limit) ==
    [q |-> q, category |-> category, featured |-> featured, limit |-> limit]

QOak == Some(<<"O", "A", "K">>)
QAcross == Some(<<"k", " ", "t">>)
QTable == Some(<<"t", "a", "b", "l", "e">>)

ListRequests ==
    { ListRequest(None, None, None, None),
      ListRequest(None, None, None, Some(0)),
      ListRequest(None, None, None, Some(1)),
      ListRequest(None, Some("chairs"), None, None),
      ListRequest(None, Some(""), None, None),
      ListRequest(None, None, Some(TRUE), None),
      ListRequest(None, None, Some(FALSE), Some(2)),
      ListRequest(None, Some("tables"), Some(TRUE), Some(1)),
      ListRequest(Some(<<>>), None, None, Some(1)),
      ListRequest(QOak, None, None, None),
      ListRequest(QOak, None, None, Some(1)),
      ListRequest(QOak, Some("chairs"), Some(FALSE), Some(2)),
      ListRequest(QTable, None, None, None),
      ListRequest(QAcross, None, None, None),
      ListRequest(QAcross, Some(""), Some(TRUE), Some(2)) }

NoRequest == [op |-> "none"]
NoResponse == [status |-> 0]

---------------------------------------------------------------------------
(* The service, one request at a time. *)

Init ==
    /\ store = <<>>
    /\ nextId = 1
    /\ now = 0
    /\ req = NoRequest
    /\ resp = NoResponse
    /\ prev = <<>>
    /\ docs = <<>>
    /\ procs = <<>>
    /\ calls = <<>>

Create(body) ==
    /\ nextId <= MaxId
    /\ LET r == create_furniture(store, body, nextId)
       IN  /\ store' = r.coll
           /\ resp' = r.resp
    /\ nextId' = nextId + 1
    /\ req' = [op |-> "create", body |-> body]
    /\ prev' = store
    /\ docs' = <<>>
    /\ UNCHANGED <<now, procs, calls>>

\* limit: int = 50
LimitOf(limit) == IF limit = None THEN DefaultLimit ELSE Val(limit)

List(r) ==
    /\ LET l == list_furniture(store, r.q, r.category, r.featured, LimitOf(r.limit))
       IN  /\ docs' = l.docs
           /\ resp' = l.resp
    /\ req' = [op |-> "list", q |-> r.q, category |-> r.category,
               featured |-> r.featured, limit |-> r.limit]
    /\ prev' = store
    /\ UNCHANGED <<store, nextId, now, procs, calls>>

Update(item_id, body) ==
    /\ LET r == update_furniture(store, item_id, body, now)
       IN  /\ r.reads_clock => now < MaxClock
           /\ store' = r.coll
           /\ resp' = r.resp
           /\ now' = IF r.reads_clock THEN now + 1 ELSE now
    /\ req' = [op |-> "update", item_id |-> item_id, body |-> body, at |-> now]
    /\ prev' = store
    /\ docs' = <<>>
    /\ UNCHANGED <<nextId, procs, calls>>

Delete(item_id) ==
    /\ LET r == delete_furniture(store, item_id)
       IN  /\ store' = r.coll
           /\ resp' = r.resp
    /\ req' = [op |-> "delete", item_id |-> item_id]
    /\ prev' = store
    /\ docs' = <<>>
    /\ UNCHANGED <<nextId, now, procs, calls>>

Next ==
    \/ \E body \in CreateBodies : Create(body)
    \/ \E r \in ListRequests : List(r)
    \/ \E item_id \in ItemIds, body \in UpdateBodies : Update(item_id, body)
    \/ \E item_id \in ItemIds : Delete(item_id)

Spec == Init /\ [][Next]_vars

---------------------------------------------------------------------------
(* Concurrent requests on one id.  Each worker of the server runs one      *)
(* handler; a handler is a sequence of local steps around one store call,  *)
(* and the store serves the calls one at a time.                           *)

Workers == 1..NumWorkers

\* The id all the concurrent requests address: that of the first document.
TargetId == ObjectIdStr(ObjectIdOf(1))

\* PATCH bodies of the concurrent requests: two that set price, one empty.
ConcBodies ==
    { [price |-> Some(199)],
      [price |-> Some(250), is_featured |-> Some(FALSE), stock |-> None],
      [price |-> None] }

Idle == [pc |-> "idle"]

\* A collection of two documents, as two Creates leave it.
TwoCreated(b1, b2) ==
    create_furniture(create_furniture(<<>>, b1, 1).coll, b2, 2).coll

ConcInit ==
    /\ store \in {TwoCreated(b1, b2) : b1, b2 \in CreateBodies}
    /\ prev = store
    /\ nextId = 3
    /\ now = 0
    /\ req = NoRequest
    /\ resp = NoResponse
    /\ docs = <<>>
    /\ procs = [w \in Workers |-> Idle]
    /\ calls = <<>>

\* The router hands worker w a PATCH of the target.
ReceiveUpdate(w, body) ==
    /\ procs[w].pc = "idle"
    /\ procs' = [procs EXCEPT ![w] = [pc |-> "received", op |-> "update", body |-> body]]
    /\ UNCHANGED <<store, nextId, now, req, resp, prev, docs, calls>>

\* The router hands worker w a DELETE of the target.
ReceiveDelete(w) ==
    /\ procs[w].pc = "idle"
    /\ procs' = [procs EXCEPT ![w] = [pc |-> "received", op |-> "delete"]]
    /\ UNCHANGED <<store, nextId, now, req, resp, prev, docs, calls>>

\* update_furniture up to its store call: the change-set, the short-circuit
\* and the time stamp.
UpdateBuild(w) ==
    /\ procs[w].pc = "received"
    /\ procs[w].op = "update"
    /\ LET update_doc == ChangeSet(FurnitureUpdate(procs[w].body))
       IN  IF IsEmptyChangeSet(update_doc)
           THEN /\ procs' = [procs EXCEPT ![w] =
                       [pc |-> "done", op |-> "update", body |-> procs[w].body,
                        resp |-> Ok([updated |-> FALSE])]]
                /\ now' = now
           ELSE /\ procs' = [procs EXCEPT ![w] =
                       [pc |-> "built", op |-> "update", body |-> procs[w].body,
                        at |-> now, update_doc |-> Stamp(update_doc, now)]]
                /\ now' = now + 1
    /\ UNCHANGED <<store, nextId, req, resp, prev, docs, calls>>

\* update_furniture's store call; the outcome is held by the worker.
UpdateStore(w) ==
    /\ procs[w].pc = "built"
    /\ LET r == update_call(store, TargetId, procs[w].update_doc)
       IN  /\ store' = r.coll
           /\ procs' = [procs EXCEPT ![w] =
                  [pc |-> "called", op |-> "update", body |-> procs[w].body,
                   at |-> procs[w].at, resp |-> r.resp]]
    /\ calls' = Append(calls, w)
    /\ UNCHANGED <<nextId, now, req, resp, prev, docs>>

\* delete_furniture's store call.
DeleteStore(w) ==
    /\ procs[w].pc = "received"
    /\ procs[w].op = "delete"
    /\ LET r == delete_furniture(store, TargetId)
       IN  /\ store' = r.coll
           /\ procs' = [procs EXCEPT ![w] =
                  [pc |-> "called", op |-> "delete", resp |-> r.resp]]
    /\ calls' = Append(calls, w)
    /\ UNCHANGED <<nextId, now, req, resp, prev, docs>>

\* The handler returns or raises, and the response leaves.
Respond(w) ==
    /\ procs[w].pc = "called"
    /\ procs' = [procs EXCEPT ![w].pc = "done"]
    /\ UNCHANGED <<store, nextId, now, req, resp, prev, docs, calls>>

ConcNext ==
    \E w \in Workers :
        \/ \E body \in ConcBodies : ReceiveUpdate(w, body)
        \/ ReceiveDelete(w)
        \/ UpdateBuild(w)
        \/ UpdateStore(w)
        \/ DeleteStore(w)
        \/ Respond(w)

ConcSpec == ConcInit /\ [][ConcNext]_vars

---------------------------------------------------------------------------
(* What the claims speak of, read off the recorded request and response.   *)

IsOk == resp.status = 200

\* The positions of coll whose document a client addresses by item_id.
Addressed(coll, item_id) ==
    {i \in 1..Len(coll) : ObjectIdStr(coll[i]["_id"]) = item_id}

\* The fields a PATCH body supplies with a non-null value.
Supplied(body) == {f \in DOMAIN body : body[f] # None}

NameOf(d) == lower(Val(d["name"]))
DescriptionOf(d) == IF d["description"] = None THEN <<>> ELSE lower(Val(d["description"]))

\* name contains q or description contains q, ignoring case
NameOrDescriptionHas(d, q) ==
    \/ Contains(NameOf(d), lower(q))
    \/ Contains(DescriptionOf(d), lower(q))

\* name, a space and description, joined, contain q, ignoring case
JoinedTextHas(d, q) ==
    Contains(NameOf(d) \o <<" ">> \o DescriptionOf(d), lower(q))

IsUpdate == req.op = "update"
IsDelete == req.op = "delete"
IsCreate == req.op = "create"
IsList == req.op = "list"

---------------------------------------------------------------------------
(* C1: for every item_id that matches no document, Update with a non-null  *)
(* field and Delete each respond 404 "Item not found" and leave the store  *)
(* unchanged.  Stated for the well-formed ids.                             *)
C1_MissingItemIs404 ==
    ( /\ IsUpdate \/ IsDelete
      /\ IsUpdate => Supplied(req.body) # {}
      /\ ObjectIdValid(req.item_id)
      /\ Addressed(prev, req.item_id) = {} )
    => /\ resp.status = 404
       /\ resp.detail = ItemNotFound
       /\ store = prev

(* C2: Update of an existing item with a non-empty change-set answers      *)
(* {updated: true}; the stored document then has every supplied non-null   *)
(* field at the supplied value, every other field as before, the same id   *)
(* and updated_at at the time of the call; no other document changes.      *)
C2_UpdateAppliesChangeSet ==
    ( /\ IsUpdate
      /\ Supplied(req.body) # {}
      /\ Addressed(prev, req.item_id) # {} )
    => /\ IsOk
       /\ resp.body = [updated |-> TRUE]
       /\ Len(store) = Len(prev)
       /\ \A i \in 1..Len(prev) :
            IF i \in Addressed(prev, req.item_id)
            THEN /\ DOMAIN store[i] = Fields \cup {"_id", "updated_at"}
                 /\ \A f \in Fields :
                       store[i][f] = IF f \in Supplied(req.body)
                                     THEN req.body[f] ELSE prev[i][f]
                 /\ store[i]["_id"] = prev[i]["_id"]
                 /\ store[i]["updated_at"] = Some(req.at)
            ELSE store[i] = prev[i]

\* An update that sets falsy values and carries a null for a field the
\* document has, with a second document stored.
C2_Witness ==
    /\ IsUpdate
    /\ IsOk
    /\ Len(prev) = 2
    /\ \E i \in Addressed(prev, req.item_id) :
         /\ "material" \in DOMAIN req.body
         /\ req.body["material"] = None
         /\ prev[i]["material"] # None
         /\ req.body["is_featured"] = Some(FALSE)
         /\ prev[i]["is_featured"] = Some(TRUE)

(* C3: Update whose payload has every field null or absent answers         *)
(* {updated: false} and writes nothing, whatever the item_id.              *)
C3_EmptyUpdateIsNoOp ==
    (IsUpdate /\ Supplied(req.body) = {})
    => /\ IsOk
       /\ resp.body = [updated |-> FALSE]
       /\ store = prev

\* An all-null body sent to a document that an earlier update has stamped.
C3_Witness ==
    /\ IsUpdate
    /\ DOMAIN req.body # {}
    /\ Supplied(req.body) = {}
    /\ \E i \in Addressed(store, req.item_id) : "updated_at" \in DOMAIN store[i]


\* A List request without q, category and featured whose limit is at least
\* the number of stored documents.
ListsAll ==
    /\ IsList
    /\ req.q = None
    /\ req.category = None
    /\ req.featured = None
    /\ Len(store) <= (IF req.limit = None THEN DefaultLimit ELSE Val(req.limit))

(* C4: Create with only name, category and price returns an id, and a List *)
(* without filters whose limit is at least the number of stored documents  *)
(* holds a document of that id with the supplied name, category and price, *)
(* stock 0 and is_featured false; the documents stored before are as they  *)
(* were.  Such a List, whenever it is served, returns every stored         *)
(* document with its fields as stored.                                     *)
C4_CreateThenListShowsDefaults ==
    /\ ListsAll
         => /\ Len(resp.body) = Len(store)
            /\ \A i \in 1..Len(store) :
                 /\ resp.body[i]["id"] = ObjectIdStr(store[i]["_id"])
                 /\ \A f \in Fields : resp.body[i][f] = store[i][f]
    /\ (IsCreate /\ DOMAIN req.body = Required)
         => /\ IsOk
            /\ ObjectIdValid(resp.body.id)
            /\ Len(store) = Len(prev) + 1
            /\ SubSeq(store, 1, Len(prev)) = prev
            /\ \A limit \in {Len(store), Len(store) + 1, DefaultLimit} :
                 LET listed == list_furniture(store, None, None, None, limit).resp.body
                     hits == {i \in 1..Len(listed) : listed[i]["id"] = resp.body.id}
                 IN  /\ Cardinality(hits) = 1
                     /\ \A i \in hits :
                          /\ \A f \in Required : listed[i][f] = req.body[f]
                          /\ listed[i]["stock"] = Some(0)
                          /\ listed[i]["is_featured"] = Some(FALSE)

\* A required-fields-only create into a collection that already has a document.
C4_Witness ==
    /\ IsCreate
    /\ DOMAIN req.body = Required
    /\ IsOk
    /\ Len(prev) = 1
    /\ Len(store) = 2

\* The limit a List request asks for.
ReqLimit == IF req.limit = None THEN DefaultLimit ELSE Val(req.limit)

\* Whether q is absent or the empty string.
NoSearch == req.q = None \/ Val(req.q) = <<>>

(* C5 as claimed: whenever a category is supplied, the empty string        *)
(* included, every returned document has exactly that category; whenever   *)
(* featured is supplied every returned document has that is_featured; when *)
(* neither is supplied these filters exclude nothing.                      *)
C5_FiltersExact ==
    IsList
    => /\ req.category # None
            => \A i \in 1..Len(resp.body) : resp.body[i]["category"] = req.category
       /\ req.featured # None
            => \A i \in 1..Len(resp.body) : resp.body[i]["is_featured"] = req.featured
       /\ (req.category = None /\ req.featured = None /\ NoSearch)
            => Len(resp.body) = Min(ReqLimit, Len(store))

(* C5 amended: a supplied category that is not the empty string, and a     *)
(* supplied featured, are exact filters; when no featured is supplied and  *)
(* the category is absent or the empty string, these filters exclude       *)
(* nothing.                                                                *)
C5_FiltersExactWhenNonEmpty ==
    IsList
    => /\ (req.category # None /\ Val(req.category) # "")
            => \A i \in 1..Len(resp.body) : resp.body[i]["category"] = req.category
       /\ req.featured # None
            => \A i \in 1..Len(resp.body) : resp.body[i]["is_featured"] = req.featured
       /\ ((req.category = None \/ Val(req.category) = "") /\ req.featured = None)
            => /\ docs = SubSeq(store, 1, Min(ReqLimit, Len(store)))
               /\ NoSearch => Len(resp.body) = Min(ReqLimit, Len(store))

\* Both filters given, one stored document passing them and one not.
C5_Witness ==
    /\ IsList
    /\ req.category = Some("chairs")
    /\ req.featured = Some(FALSE)
    /\ Len(store) = 2
    /\ Len(resp.body) = 1

\* The returned documents are the documents kept, in order.
ReturnedAre(kept) ==
    /\ Len(resp.body) = Len(kept)
    /\ \A i \in 1..Len(kept) :
         /\ resp.body[i]["id"] = ObjectIdStr(kept[i]["_id"])
         /\ resp.body[i]["name"] = kept[i]["name"]

\* The fetched documents with q in the name or in the description.
FetchedWithNameOrDescription ==
    SelectSeq(docs, LAMBDA d : NameOrDescriptionHas(d, Val(req.q)))

\* The fetched documents with q in the joined text.
FetchedWithJoinedText ==
    SelectSeq(docs, LAMBDA d : JoinedTextHas(d, Val(req.q)))

(* C6 as claimed: with a non-empty q, every returned document has q in its *)
(* name or in its description, ignoring case and reading a null            *)
(* description as empty, and every fetched document that has is returned.  *)
C6_SearchNameOrDescription ==
    (IsList /\ ~NoSearch)
    => ReturnedAre(FetchedWithNameOrDescription)

(* C6 amended: with a non-empty q, the returned documents are the fetched  *)
(* ones whose lower-cased name, one space and lower-cased description,     *)
(* joined, contain lower-cased q; so every fetched document with q in its  *)
(* name or in its description is returned, and when q has no space the     *)
(* returned documents are exactly those.                                   *)
C6_SearchJoinedText ==
    (IsList /\ ~NoSearch)
    => /\ ReturnedAre(FetchedWithJoinedText)
       /\ \A i \in 1..Len(docs) :
            NameOrDescriptionHas(docs[i], Val(req.q))
               => \E j \in 1..Len(resp.body) :
                     resp.body[j]["id"] = ObjectIdStr(docs[i]["_id"])
       /\ (\A k \in 1..Len(Val(req.q)) : Val(req.q)[k] # " ")
            => ReturnedAre(FetchedWithNameOrDescription)

\* A search in another case than the stored name, which keeps one fetched
\* document and drops another.
C6_Witness ==
    /\ IsList
    /\ req.q = QOak
    /\ Len(docs) = 2
    /\ Len(resp.body) = 1
    /\ Val(resp.body[1]["name"]) = Oak

IssuedIds == {ObjectIdStr(ObjectIdOf(n)) : n \in 1..(nextId - 1)}

\* The ids of the documents of coll, in order.
IdsOf(coll) == [i \in 1..Len(coll) |-> coll[i]["_id"]]

(* C8: round trip.  A created item is listed under its id; Delete of it    *)
(* answers {deleted: true} and removes that document alone; afterwards no  *)
(* List returns a document of that id, and a second Delete of it answers   *)
(* 404.                                                                    *)
C8_RoundTrip ==
    /\ IsCreate
         => \E i \in 1..Len(store) : ObjectIdStr(store[i]["_id"]) = resp.body.id
    /\ (IsDelete /\ Addressed(prev, req.item_id) # {})
         => /\ IsOk
            /\ resp.body = [deleted |-> TRUE]
            /\ Len(store) = Len(prev) - 1
            /\ Addressed(store, req.item_id) = {}
            /\ \A i \in 1..Len(prev) :
                 i \notin Addressed(prev, req.item_id)
                    => \E j \in 1..Len(store) : store[j] = prev[i]
    /\ IsList
         => \A i \in 1..Len(resp.body) : Addressed(store, resp.body[i]["id"]) # {}
    /\ (IsDelete /\ req.item_id \in IssuedIds /\ Addressed(prev, req.item_id) = {})
         => resp.status = 404

(* C9: no two stored documents have the same id; a document keeps its id   *)
(* from creation to deletion (Update leaves every id in place, Create and  *)
(* Delete leave the ids of the other documents, no id is handed out        *)
(* twice); List exposes the id of every returned document as the string    *)
(* field id.                                                               *)
C9_IdUniqueAndStable ==
    /\ \A i, j \in 1..Len(store) : store[i]["_id"] = store[j]["_id"] => i = j
    /\ \A i \in 1..Len(store) : ObjectIdStr(store[i]["_id"]) \in IssuedIds
    /\ IsUpdate => IdsOf(store) = IdsOf(prev)
    /\ IsCreate
         => /\ IdsOf(SubSeq(store, 1, Len(prev))) = IdsOf(prev)
            /\ Addressed(prev, resp.body.id) = {}
    /\ IsDelete
         => \A i \in 1..Len(store) : \E j \in 1..Len(prev) : store[i] = prev[j]
    /\ IsList
         => /\ store = prev
            /\ \A i \in 1..Len(resp.body) :
                 /\ "id" \in DOMAIN resp.body[i]
                 /\ "_id" \notin DOMAIN resp.body[i]
                 /\ ObjectIdValid(resp.body[i]["id"])
                 /\ \E j \in Addressed(store, resp.body[i]["id"]) :
                      \A f \in DOMAIN store[j] \ {"_id"} :
                         resp.body[i][f] = store[j][f]

\* A List of two documents, one of them updated since its creation.
C9_Witness ==
    /\ IsList
    /\ Len(resp.body) = 2
    /\ \E i \in 1..2 : "updated_at" \in DOMAIN resp.body[i]


\* The worker that made the k-th store call.
Caller(k) == procs[calls[k]]

\* The first k store calls' requests run one at a time, each as a whole
\* handler at the time its worker read the clock: the collection left and
\* the responses given.
RECURSIVE OneAtATime(_)
OneAtATime(k) ==
    IF k = 0
    THEN [coll |-> prev, resps |-> <<>>]
    ELSE LET before == OneAtATime(k - 1)
             r == IF Caller(k).op = "update"
                  THEN update_furniture(before.coll, TargetId, Caller(k).body, Caller(k).at)
                  ELSE delete_furniture(before.coll, TargetId)
         IN  [coll |-> r.coll, resps |-> Append(before.resps, r.resp)]

\* The store calls so far that are Updates supplying field f.
WritersOf(f) ==
    {k \in 1..Len(calls) : Caller(k).op = "update" /\ f \in Supplied(Caller(k).body)}

\* The store calls so far that are Deletes.
Deleters == {k \in 1..Len(calls) : Caller(k).op = "delete"}

Last(S) == CHOOSE k \in S : \A j \in S : j <= k

(* C10: concurrent Updates and Deletes of one id leave what running them   *)
(* one at a time in the order of their store calls leaves, with the same   *)
(* responses; a field holds the value of the last Update to write it, each *)
(* Update that finds the document reports {updated: true}, and once a      *)
(* Delete has succeeded no Update brings the document back.  Other         *)
(* documents are untouched.                                                *)
C10_StoreCallOrderDecides ==
    /\ store = OneAtATime(Len(calls)).coll
    /\ \A k \in 1..Len(calls) : Caller(k).resp = OneAtATime(Len(calls)).resps[k]
    /\ Deleters = {}
         => /\ Len(store) = Len(prev)
            /\ \A i \in Addressed(prev, TargetId) :
                 /\ store[i]["_id"] = prev[i]["_id"]
                 /\ \A f \in Fields :
                      store[i][f] = IF WritersOf(f) = {} THEN prev[i][f]
                                    ELSE Caller(Last(WritersOf(f))).body[f]
            /\ \A k \in 1..Len(calls) :
                 /\ Caller(k).resp.status = 200
                 /\ Caller(k).resp.body = [updated |-> TRUE]
    /\ Deleters # {}
         => /\ Addressed(store, TargetId) = {}
            /\ Len(store) = Len(prev) - 1
            /\ \A k \in Deleters :
                 (\A j \in Deleters : k <= j)
                    => /\ Caller(k).resp.status = 200
                       /\ Caller(k).resp.body = [deleted |-> TRUE]
    /\ \A i \in 1..Len(prev) :
         i \notin Addressed(prev, TargetId) => \E j \in 1..Len(store) : store[j] = prev[i]

\* Two Updates of the price: the one that read the clock first made its
\* store call last, and its price is the one stored.
C10_Witness ==
    \E v, w \in Workers :
        /\ calls = <<w, v>>
        /\ procs[v].pc = "done"
        /\ procs[w].pc = "done"
        /\ procs[v].op = "update"
        /\ procs[w].op = "update"
        /\ procs[v].at < procs[w].at
        /\ procs[v].body["price"] # procs[w].body["price"]
        /\ \E i \in Addressed(store, TargetId) :
             /\ store[i]["price"] = procs[v].body["price"]
             /\ store[i]["updated_at"] = Some(procs[v].at)

===========================================================================
